---- MODULE Spec2Model ----
(***************************************************************************)
(* Period tracker (Angular frontend + ASP.NET Core backend).               *)
(*                                                                         *)
(* Three specifications share this module:                                 *)
(*   SpecDash  the dashboard component (loadCycles / calculateStats /      *)
(*             onDeleteCycle) talking to the cycle service;                *)
(*   SpecCal   the calendar component (loadCalendarData / navigateMonth /  *)
(*             generateCalendarGrid / getDayInfo);                         *)
(*   SpecApi   the CyclesController handlers over the PeriodCycle and      *)
(*             CycleSymptoms tables.                                       *)
(*                                                                         *)
(* Dates.  A JavaScript Date is an instant; the model counts instants in   *)
(* hours and keeps the invalid date (NaN) apart.  Calendar days are        *)
(* numbered from 2024-01-01 (day 0).  The browser's zone is a central      *)
(* European one: UTC+1, UTC+2 between the last Sundays of March and        *)
(* October, so that days are 23, 24 or 25 hours long.  The API serialises  *)
(* a DateTime read from a DATE column as "yyyy-MM-ddT00:00:00" (no zone),  *)
(* which new Date(...) reads as local midnight of that day.                *)
(***************************************************************************)
EXTENDS Integers, Sequences, FiniteSets, TLC

(***************************************************************************)
(* Bounds of the model                                                     *)
(***************************************************************************)
\* longest list of cycles the cycle service answers with
MaxCycles == 2
\* longest period, counted as end day - start day
MaxSpan == 2
\* how many months navigateMonth may move away from the month of today
NavMonths == 2
\* last day (counted from day 0) a request to the API may name
MaxApiDay == 1
\* most cycles the API creates in one run (cycle ids are never reused)
MaxCycleRows == 1
\* most rows the CycleSymptoms table holds
MaxSymptomRows == 2
\* longest user name and password handed to AuthenticationHelper
MaxTextLen == 2
\* most login calls, most API calls awaiting their answer, and most
\* UpdateCycle requests between their checks and their writes, at a time
MaxInFlight == 1
\* most rows the Users table is ever given
MaxUserRows == 2
\* most Register and UpdateUser requests between their checks and their
\* writes at a time
MaxWritesInFlight == 2

(***************************************************************************)
(* Civil calendar (months are 0-based, as in JavaScript)                   *)
(***************************************************************************)
IsLeap(y) == (y % 4 = 0 /\ y % 100 # 0) \/ y % 400 = 0

DaysInMonth(y, m) ==
  IF m = 1 THEN (IF IsLeap(y) THEN 29 ELSE 28)
  ELSE IF m \in {3, 5, 8, 10} THEN 30 ELSE 31

RECURSIVE DaysBeforeYear(_)
DaysBeforeYear(y) ==
  IF y <= 2024 THEN 0
  ELSE DaysBeforeYear(y - 1) + (IF IsLeap(y - 1) THEN 366 ELSE 365)

RECURSIVE DaysBeforeMonth(_, _)
DaysBeforeMonth(y, m) ==
  IF m = 0 THEN 0 ELSE DaysBeforeMonth(y, m - 1) + DaysInMonth(y, m - 1)

\* Day number of the date written (y, m, d); like the Date constructor it
\* accepts a month outside 0..11 and any day of month (day 0 is the last day
\* of the month before, day 31 of a 30-day month is the 1st of the next).
DayNum(y, m, d) ==
  LET yy == y + ((m - (m % 12)) \div 12)
      mm == m % 12
  IN  DaysBeforeYear(yy) + DaysBeforeMonth(yy, mm) + d - 1

LastDayNum == DayNum(2025, 11, 31)
DayNums == 0..LastDayNum

\* The date that lies n days after the 1st of month m of year y.
RECURSIVE CivilFrom(_, _, _)
CivilFrom(y, m, n) ==
  IF n < DaysInMonth(y, m) THEN [y |-> y, m |-> m, d |-> n + 1]
  ELSE IF m = 11 THEN CivilFrom(y + 1, 0, n - DaysInMonth(y, m))
  ELSE CivilFrom(y, m + 1, n - DaysInMonth(y, m))

\* The date (year, month, day of month) of a day number.
CivilOf == [ n \in DayNums |-> CivilFrom(2024, 0, n) ]

\* Date.prototype.getDay of a day: 0 = Sunday .. 6 = Saturday
\* (2024-01-01 was a Monday).
WeekDayOf(n) == (n + 1) % 7

\* The last Sunday of month m of year y.
LastSunday(y, m) ==
  LET last == DayNum(y, m, DaysInMonth(y, m)) IN last - WeekDayOf(last)

\* Local midnight of day n already is in summer time (which starts on the
\* last Sunday of March and ends on the last Sunday of October).
InSummer(n) ==
  LET y == CivilOf[n].y IN n > LastSunday(y, 2) /\ n <= LastSunday(y, 9)

\* Offset of local time from UTC, in hours, at local midnight of each day.
TzOffsetOf == [n \in DayNums |-> IF InSummer(n) THEN 2 ELSE 1]

TzOffset(n) == IF n \in DayNums THEN TzOffsetOf[n] ELSE 1

HoursPerDay == 24

\* The instant of local midnight of day n.
LocalMidnight(n) == HoursPerDay * n - TzOffset(n)

\* The local day an instant falls on.
LocalDayOf(t) ==
  LET c == (t + 1) \div HoursPerDay
  IN  IF c + 1 \in DayNums /\ LocalMidnight(c + 1) <= t THEN c + 1
      ELSE IF LocalMidnight(c) > t THEN c - 1
      ELSE c


(***************************************************************************)
(* JavaScript values                                                       *)
(***************************************************************************)
\* A Date: an instant in hours, or the invalid date.
InvalidDate == [nan |-> TRUE, t |-> 0]
DateAt(t) == [nan |-> FALSE, t |-> t]

\* new Date(year, month, day): local midnight of that day.
NewDateYMD(y, m, d) == DateAt(LocalMidnight(DayNum(y, m, d)))

\* A date as it travels in JSON: the text of a day, or text that is no date.
WireDate(n) == [ok |-> TRUE, day |-> n]
BadWireDate == [ok |-> FALSE, day |-> 0]

\* new Date(text): a zoneless date-time text is read in local time.
ParseDate(w) == IF w.ok THEN DateAt(LocalMidnight(w.day)) ELSE InvalidDate

\* getFullYear / getMonth / getDate of a valid Date, as one record.
LocalFields(date) == CivilOf[LocalDayOf(date.t)]

\* d.setDate(k) on a valid Date that falls on local day n: the day of month
\* becomes k (which may lie outside the month), the local time of day stays.
SetDateOn(date, n, k) ==
  DateAt(LocalMidnight(DayNum(CivilOf[n].y, CivilOf[n].m, k))
         + (date.t - LocalMidnight(n)))

\* d.setDate(k) on a valid Date.
SetDate(date, k) == SetDateOn(date, LocalDayOf(date.t), k)

\* a >= b and a <= b on Dates: false as soon as one side is NaN.
DateGE(a, b) == ~a.nan /\ ~b.nan /\ a.t >= b.t
\* (variant: a < b, which leaves the last day out)
DateLE_Strict(a, b) == ~a.nan /\ ~b.nan /\ a.t < b.t
DateLE(a, b) == ~a.nan /\ ~b.nan /\ a.t <= b.t

\* A number | undefined property.
Undefined == [k |-> "undefined", v |-> 0]
NaNNumber == [k |-> "NaN", v |-> 0]
Num(v) == [k |-> "number", v |-> v]

\* Math.round(a / b) for b > 0: the nearest integer, halves upwards.
RoundDiv(a, b) == (2 * a + b) \div (2 * b)

RECURSIVE SumSeq(_)
SumSeq(s) == IF s = <<>> THEN 0 ELSE Head(s) + SumSeq(Tail(s))

\* All orders of the elements of a list.
PermsOf(s) ==
  { [i \in 1..Len(s) |-> s[f[i]]] :
      f \in { g \in [1..Len(s) -> 1..Len(s)] :
               \A i, j \in 1..Len(s) : i # j => g[i] # g[j] } }

(***************************************************************************)
(* Array.prototype.sort by start date                                      *)
(***************************************************************************)
\* new Date(c.startDate).valueOf()
StartValue(c) == ParseDate(c.startDate)
EndValue(c) == ParseDate(c.endDate)

\* (variant: the two comparators exchanged)
Before_Exchanged(a, b, desc) ==
  IF desc THEN StartValue(a).t - StartValue(b).t < 0
  ELSE StartValue(b).t - StartValue(a).t < 0

\* comparefn(a, b) < 0: a is placed before b.
Before(a, b, desc) ==
  IF desc THEN StartValue(b).t - StartValue(a).t < 0
  ELSE StartValue(a).t - StartValue(b).t < 0

RECURSIVE InsertSorted(_, _, _)
InsertSorted(sorted, x, desc) ==
  IF sorted = <<>> THEN <<x>>
  ELSE IF Before(x, Head(sorted), desc) THEN <<x>> \o sorted
  ELSE <<Head(sorted)>> \o InsertSorted(Tail(sorted), x, desc)

\* The sort is stable: elements that compare equal keep their order.
RECURSIVE StableSortFrom(_, _, _)
StableSortFrom(done, rest, desc) ==
  IF rest = <<>> THEN done
  ELSE StableSortFrom(InsertSorted(done, Head(rest), desc), Tail(rest), desc)

StableSort(list, desc) == StableSortFrom(<<>>, list, desc)

AllStartsValid(list) == \A i \in 1..Len(list) : ~StartValue(list[i]).nan

\* What sort may leave in the array.  With a NaN among the keys comparefn is
\* not a consistent comparator and the order is implementation-defined.
SortOutcomes(list, desc) ==
  IF AllStartsValid(list) THEN {StableSort(list, desc)} ELSE PermsOf(list)


(***************************************************************************)
(* State                                                                   *)
(***************************************************************************)
VARIABLES
  \* the cycle service and the array it hands to a subscriber
  server,              \* the user's cycles as GET /cycles answers them now
  received,            \* the array object of the last answer, as it is now
  receivedAsSent,      \* the contents of that array when it was handed over
  \* DashboardPageComponent
  recentCycles, averageCycleLength, averagePeriodLength,
  dashIsLoading, dashErrorMessage,
  pendingLoad,         \* a getUserCycles() call of loadCycles is in flight
  pendingDelete,       \* the cycle ids of the deleteCycle() calls in flight
  \* CalendarPageComponent
  today,               \* the day new Date() falls on
  currentDate, currentYear, monthDays, cycles,
  calIsLoading, calErrorMessage, isNavigating,
  loadingSubscription, \* "none", "open" (waiting for the answer) or "closed"
  \* CyclesController and its tables
  PeriodCycle, CycleSymptoms, nextCycleId,
  lastRequest, lastStatus,
  lastCycles,          \* the cycles in the body of the last answer (GET api/cycles)
  updatesInFlight,     \* PUT api/cycles requests between their checks and their writes
  UserTable,           \* the rows of the table Users
  nextUserId,          \* the user_id the next INSERT is given
  writesInFlight,      \* Register and UpdateUser requests between check and write
  lastUserAnswer,      \* the last answer of AuthController.Register or UserController
  \* AuthenticationHelper: the arguments and results of its two methods
  username, password, encryptedHeader, decrypted,
  \* BasicAuthenticationMiddleware: the request it was invoked for and what
  \* became of it
  httpRequest, httpContext,
  \* the browser: localStorage, AuthService, authInterceptor, authGuard
  localStorage,        \* the five keys the application stores
  currentUserSubject,  \* the value the BehaviorSubject holds
  loginsInFlight,      \* the bodies of the POST /auth/login calls not answered yet
  requestsInFlight,    \* the Authorization headers of the API calls not answered yet
  subscriberSaw,       \* what the subscriber of the last answered login() received
  routerUrl,           \* where the router was last told to navigate
  guardResult,         \* what authGuard returned last
  authEvent,           \* the handler that ran last
  loginSucceeded,      \* a login has succeeded since the last logout
  answered401          \* a 401 was handled and no login has succeeded since

serviceVars == <<server, received, receivedAsSent>>
dashVars == <<recentCycles, averageCycleLength, averagePeriodLength,
              dashIsLoading, dashErrorMessage, pendingLoad, pendingDelete>>
calVars == <<today, currentDate, currentYear, monthDays, cycles,
             calIsLoading, calErrorMessage, isNavigating, loadingSubscription>>
apiVars == <<PeriodCycle, CycleSymptoms, nextCycleId, lastRequest, lastStatus,
             lastCycles>>
helperVars == <<username, password, encryptedHeader, decrypted>>
middlewareVars == <<httpRequest, httpContext>>
clientVars == <<localStorage, currentUserSubject, loginsInFlight, requestsInFlight,
                subscriberSaw, routerUrl, guardResult, authEvent,
                loginSucceeded, answered401>>
securityVars == <<helperVars, middlewareVars, clientVars>>
stepVars == <<updatesInFlight>>
accountVars == <<UserTable, nextUserId, writesInFlight, lastUserAnswer>>
vars == <<serviceVars, dashVars, calVars, apiVars, securityVars, stepVars,
          accountVars>>

(***************************************************************************)
(* The answers of GET /cycles the model draws from                         *)
(***************************************************************************)
\* Start days: 2025-03-01, 2025-03-03 (ovulation days two days apart) and
\* 2025-03-29 (28 days after the first; summer time starts on 2025-03-30).
StartDays == {DayNum(2025, 2, 1), DayNum(2025, 2, 3), DayNum(2025, 2, 29)}

\* The start and end texts of one cycle: a period of MaxSpan + 1 days, a
\* period of one day, or a cycle one of whose dates is no date.
WireSpans ==
  { [startDate |-> WireDate(s), endDate |-> WireDate(s + MaxSpan)] : s \in StartDays }
  \cup { [startDate |-> WireDate(DayNum(2025, 2, 1)), endDate |-> WireDate(DayNum(2025, 2, 1))] }
  \cup { [startDate |-> BadWireDate, endDate |-> WireDate(DayNum(2025, 2, 3))],
         [startDate |-> WireDate(DayNum(2025, 2, 1)), endDate |-> BadWireDate] }

\* Lists of at most MaxCycles cycles in any order; cycle ids are distinct.
WireLists ==
  UNION { { [i \in 1..n |-> [cycleId |-> i,
                              startDate |-> f[i].startDate,
                              endDate |-> f[i].endDate]] :
              f \in [1..n -> WireSpans] } : n \in 0..MaxCycles }

(***************************************************************************)
(* DashboardPageComponent                                                  *)
(***************************************************************************)
\* (variant: Math.floor in place of Math.round)
PeriodLength_Floor(c) ==
  IF StartValue(c).nan \/ EndValue(c).nan THEN NaNNumber
  ELSE Num(((EndValue(c).t - StartValue(c).t) \div HoursPerDay) + 1)

\* One entry of periodLengths.
PeriodLength(c) ==
  IF StartValue(c).nan \/ EndValue(c).nan THEN NaNNumber
  ELSE Num(RoundDiv(EndValue(c).t - StartValue(c).t, HoursPerDay) + 1)

\* Math.round(sum / count) over a list of numbers, NaN if one of them is.
RoundedMean(nums) ==
  IF \E i \in 1..Len(nums) : nums[i].k = "NaN" THEN NaNNumber
  ELSE Num(RoundDiv(SumSeq([i \in 1..Len(nums) |-> nums[i].v]), Len(nums)))

\* One entry of diffs: whole days from sorted[i] to sorted[i + 1].
StartDiff(sorted, i) ==
  Num(RoundDiv(StartValue(sorted[i + 1]).t - StartValue(sorted[i]).t, HoursPerDay))

\* (variant: a single cycle treated like no cycle)
calculateStats_NeedsTwo(list) ==
  IF Len(list) <= 1
  THEN [averageCycleLength |-> Undefined, averagePeriodLength |-> Undefined]
  ELSE [averagePeriodLength |->
          RoundedMean([i \in 1..Len(list) |-> PeriodLength(list[i])]),
        averageCycleLength |->
          IF ~AllStartsValid(list) THEN NaNNumber
          ELSE LET sorted == StableSort(list, FALSE)
               IN  RoundedMean([i \in 1..Len(list) - 1 |-> StartDiff(sorted, i)])]

\* calculateStats: the two averages it assigns.  (With an invalid start date
\* among two or more cycles every order of the sorted copy puts a NaN into
\* diffs, so the average is NaN whatever sort does.)
calculateStats(list) ==
  IF Len(list) = 0
  THEN [averageCycleLength |-> Undefined, averagePeriodLength |-> Undefined]
  ELSE [averagePeriodLength |->
          RoundedMean([i \in 1..Len(list) |-> PeriodLength(list[i])]),
        averageCycleLength |->
          IF Len(list) > 1
          THEN IF ~AllStartsValid(list) THEN NaNNumber
               ELSE LET sorted == StableSort(list, FALSE)
                    IN  RoundedMean([i \in 1..Len(list) - 1 |-> StartDiff(sorted, i)])
          ELSE Undefined]

\* loadCycles(), up to the subscription (ngOnInit calls it).
loadCycles ==
  /\ ~pendingLoad
  /\ dashIsLoading' = TRUE
  /\ dashErrorMessage' = ""
  /\ pendingLoad' = TRUE
  /\ UNCHANGED <<recentCycles, averageCycleLength, averagePeriodLength, pendingDelete>>
  /\ UNCHANGED <<serviceVars, calVars, apiVars, securityVars, stepVars, accountVars>>

\* The next handler of loadCycles: the answer arrives as a fresh array, which
\* sort orders in place (most recent first) and recentCycles then refers to.
loadCyclesNext ==
  /\ pendingLoad
  /\ \E sorted \in SortOutcomes(server, TRUE) :
       /\ receivedAsSent' = server
       /\ received' = sorted
       /\ recentCycles' = sorted
       /\ averageCycleLength' = calculateStats(sorted).averageCycleLength
       /\ averagePeriodLength' = calculateStats(sorted).averagePeriodLength
  /\ dashIsLoading' = FALSE
  /\ pendingLoad' = FALSE
  /\ UNCHANGED <<server, dashErrorMessage, pendingDelete>>
  /\ UNCHANGED <<calVars, apiVars, securityVars, stepVars, accountVars>>

\* The error handler of loadCycles.
loadCyclesError ==
  /\ pendingLoad
  /\ dashErrorMessage' = "Failed to load cycles"
  /\ dashIsLoading' = FALSE
  /\ pendingLoad' = FALSE
  /\ UNCHANGED <<recentCycles, averageCycleLength, averagePeriodLength, pendingDelete>>
  /\ UNCHANGED <<serviceVars, calVars, apiVars, securityVars, stepVars, accountVars>>

\* onDeleteCycle(cycleId), up to the subscription; the template offers it for
\* the cycles on display.
onDeleteCycle(cycleId) ==
  /\ \E i \in 1..Len(recentCycles) : recentCycles[i].cycleId = cycleId
  /\ cycleId \notin pendingDelete
  /\ pendingDelete' = pendingDelete \cup {cycleId}
  /\ UNCHANGED <<recentCycles, averageCycleLength, averagePeriodLength,
                 dashIsLoading, dashErrorMessage, pendingLoad>>
  /\ UNCHANGED <<serviceVars, calVars, apiVars, securityVars, stepVars, accountVars>>

WithoutCycle(list, cycleId) ==
  LET Keep(c) == c.cycleId # cycleId IN SelectSeq(list, Keep)

\* (variant: the cycle is removed from the list, the averages are kept)
onDeleteCycleNext_StaleStats(cycleId) ==
  /\ cycleId \in pendingDelete
  /\ \E i \in 1..Len(server) : server[i].cycleId = cycleId
  /\ server' = WithoutCycle(server, cycleId)
  /\ pendingDelete' = pendingDelete \ {cycleId}
  /\ recentCycles' = WithoutCycle(recentCycles, cycleId)
  /\ UNCHANGED <<averageCycleLength, averagePeriodLength>>
  /\ UNCHANGED <<received, receivedAsSent, dashIsLoading, dashErrorMessage, pendingLoad>>
  /\ UNCHANGED <<calVars, apiVars, securityVars, stepVars, accountVars>>

\* The next handler of onDeleteCycle: the backend has deleted the cycle.
onDeleteCycleNext(cycleId) ==
  /\ cycleId \in pendingDelete
  /\ \E i \in 1..Len(server) : server[i].cycleId = cycleId
  /\ server' = WithoutCycle(server, cycleId)
  /\ pendingDelete' = pendingDelete \ {cycleId}
  /\ recentCycles' = WithoutCycle(recentCycles, cycleId)
  /\ averageCycleLength' = calculateStats(recentCycles').averageCycleLength
  /\ averagePeriodLength' = calculateStats(recentCycles').averagePeriodLength
  /\ UNCHANGED <<received, receivedAsSent, dashIsLoading, dashErrorMessage, pendingLoad>>
  /\ UNCHANGED <<calVars, apiVars, securityVars, stepVars, accountVars>>

\* The error handler of onDeleteCycle (the cycle is gone already, or the
\* request failed).
onDeleteCycleError(cycleId) ==
  /\ cycleId \in pendingDelete
  /\ pendingDelete' = pendingDelete \ {cycleId}
  /\ UNCHANGED <<recentCycles, averageCycleLength, averagePeriodLength,
                 dashIsLoading, dashErrorMessage, pendingLoad>>
  /\ UNCHANGED <<serviceVars, calVars, apiVars, securityVars, stepVars, accountVars>>


(***************************************************************************)
(* CalendarPageComponent                                                   *)
(***************************************************************************)
\* cycleId: undefined, and day: null of an empty cell (ids and days start at 1).
NoCycleId == 0
NullDay == 0
NullDate == [null |-> TRUE]

\* isSameDay(a, b) for two Dates: year, month and day of month agree.
isSameDay(a, b) ==
  /\ a # NullDate /\ b # NullDate
  /\ ~a.nan /\ ~b.nan
  /\ LocalFields(a) = LocalFields(b)

\* (variant: 14 days counted as 14 * 24 hours)
calculateOvulationDate_Hours(cycle) ==
  IF cycle.startDate.nan THEN NullDate
  ELSE DateAt(cycle.startDate.t + 14 * HoursPerDay)

\* calculateOvulationDate(cycle): 14 days after the start, or null.
calculateOvulationDate(cycle) ==
  IF cycle.startDate.nan THEN NullDate
  ELSE SetDate(cycle.startDate, LocalFields(cycle.startDate).d + 14)

\* (variant: the cycle id of a period day is set only while none is set)
MarkPeriod_KeepFirst(result, cycle, date) ==
  IF DateGE(date, cycle.startDate) /\ DateLE(date, cycle.endDate)
  THEN [result EXCEPT !.isPeriod = TRUE,
                      !.cycleId = IF result.cycleId = NoCycleId
                                  THEN cycle.cycleId ELSE result.cycleId]
  ELSE result

\* if (date >= start && date <= end) { isPeriod = true; cycleId = .. }
MarkPeriod(result, cycle, date) ==
  IF DateGE(date, cycle.startDate) /\ DateLE(date, cycle.endDate)
  THEN [result EXCEPT !.isPeriod = TRUE, !.cycleId = cycle.cycleId]
  ELSE result

\* fertileStart: ovDate with its day of month set 5 back.
FertileStart(ovDate) == SetDate(ovDate, LocalFields(ovDate).d - 5)

\* if (date >= fertileStart && date <= ovDate) result.isFertile = true
MarkFertile(result, date, fertileStart, ovDate) ==
  IF DateGE(date, fertileStart) /\ DateLE(date, ovDate)
  THEN [result EXCEPT !.isFertile = TRUE]
  ELSE result

\* if (isSameDay(date, ovDate)) { isOvulation = true; isFertile = false }
MarkOvulation(result, date, ovDate) ==
  IF isSameDay(date, ovDate)
  THEN [result EXCEPT !.isOvulation = TRUE, !.isFertile = FALSE]
  ELSE result

\* (variant: the id is set whether or not the day has one already)
SetCycleId_Always(result, cycle) ==
  IF result.isFertile \/ result.isOvulation
  THEN [result EXCEPT !.cycleId = cycle.cycleId]
  ELSE result

\* if (!result.cycleId && (isFertile || isOvulation)) cycleId = cycle.cycleId
SetCycleId(result, cycle) ==
  IF result.cycleId = NoCycleId /\ (result.isFertile \/ result.isOvulation)
  THEN [result EXCEPT !.cycleId = cycle.cycleId]
  ELSE result

\* The statements under "if (ovDate)", in their order.
MarkFertility(result, cycle, date, ovDate) ==
  IF ovDate = NullDate THEN result
  ELSE SetCycleId(
         MarkOvulation(MarkFertile(result, date, FertileStart(ovDate), ovDate),
                       date, ovDate),
         cycle)

\* (variant: only the start date is checked before the cycle is used)
DayInfoStep_StartOnly(result, cycle, date) ==
  IF cycle.startDate.nan THEN result
  ELSE MarkFertility(MarkPeriod(result, cycle, date), cycle, date,
                     calculateOvulationDate(cycle))

\* One round of the loop of getDayInfo.
DayInfoStep(result, cycle, date) ==
  IF cycle.startDate.nan \/ cycle.endDate.nan THEN result
  ELSE MarkFertility(MarkPeriod(result, cycle, date), cycle, date,
                     calculateOvulationDate(cycle))

RECURSIVE DayInfoLoop(_, _, _)
DayInfoLoop(result, list, date) ==
  IF list = <<>> THEN result
  ELSE DayInfoLoop(DayInfoStep(result, Head(list), date), Tail(list), date)

\* getDayInfo(date) over this.cycles = list.
getDayInfo(date, list) ==
  DayInfoLoop([isPeriod |-> FALSE, isFertile |-> FALSE, isOvulation |-> FALSE,
               cycleId |-> NoCycleId], list, date)

createEmptyCell ==
  [day |-> NullDay, date |-> NullDate, active |-> FALSE, isPeriod |-> FALSE,
   isFertile |-> FALSE, isOvulation |-> FALSE, isToday |-> FALSE,
   cycleId |-> NoCycleId]

\* The cell pushed for day d, whose Date is date and whose getDayInfo is info.
CellOf(d, date, info, now) ==
  [day |-> d, date |-> date,
   active |-> info.isPeriod \/ info.isFertile \/ info.isOvulation,
   isPeriod |-> info.isPeriod, isFertile |-> info.isFertile,
   isOvulation |-> info.isOvulation,
   isToday |-> isSameDay(date, now),
   cycleId |-> info.cycleId]

\* The cell generateCalendarGrid pushes for the day that falls on date.
DayCellAt(d, date, list, now) == CellOf(d, date, getDayInfo(date, list), now)

\* The cell generateCalendarGrid pushes for day d of the month.
DayCell(y, m, d, list, now) ==
  DayCellAt(d, NewDateYMD(y, m, d), list, DateAt(LocalMidnight(now)))

\* (variant: Sunday not wrapped to the last column)
GridOffset_NoWrap(y, m) == WeekDayOf(DayNum(y, m, 1)) - 1

\* Monday-based column of the 1st of the month.
GridOffset(y, m) ==
  LET offset == WeekDayOf(DayNum(y, m, 1)) - 1
  IN  IF offset < 0 THEN 6 ELSE offset

\* Math.ceil((offset + daysInMonth) / 7) * 7
GridTotal(offset, daysInMonth) == ((offset + daysInMonth + 6) \div 7) * 7

\* while (this.monthDays.length < total) push(createEmptyCell())
PadTo(filled, total) ==
  filled \o [i \in 1..(total - Len(filled)) |-> createEmptyCell]

\* The grid of month `month` of `year`, which has daysInMonth days and whose
\* 1st is in column offset.
GridOf(year, month, daysInMonth, offset, list, now) ==
  PadTo([i \in 1..offset |-> createEmptyCell]
          \o [d \in 1..daysInMonth |-> DayCell(year, month, d, list, now)],
        GridTotal(offset, daysInMonth))

\* The grid of the month the date c lies in.
GridOfMonth(c, list, now) ==
  GridOf(c.y, c.m, CivilOf[DayNum(c.y, c.m + 1, 0)].d, GridOffset(c.y, c.m),
         list, now)

\* generateCalendarGrid(): the new monthDays for the month of day shown.
generateCalendarGrid(shown, list, now) == GridOfMonth(CivilOf[shown], list, now)

\* The map of loadCalendarData: a new array whose dates are Date objects.
ToDates(list) ==
  [i \in 1..Len(list) |->
     [cycleId |-> list[i].cycleId,
      startDate |-> ParseDate(list[i].startDate),
      endDate |-> ParseDate(list[i].endDate)]]

\* Days new Date() may fall on when the component is constructed.
TodayChoices == {DayNum(2025, 2, 15), DayNum(2025, 0, 31)}

MonthIndex(n) == CivilOf[n].y * 12 + CivilOf[n].m

\* ngOnInit(): initializeCalendarState() and loadCalendarData() up to the
\* subscription.
ngOnInit ==
  /\ loadingSubscription = "none"
  /\ currentYear' = CivilOf[currentDate].y
  /\ isNavigating' = TRUE
  /\ calIsLoading' = TRUE
  /\ calErrorMessage' = ""
  /\ loadingSubscription' = "open"
  /\ UNCHANGED <<today, currentDate, monthDays, cycles>>
  /\ UNCHANGED <<serviceVars, dashVars, apiVars, securityVars, stepVars, accountVars>>

\* The next handler of loadCalendarData.
loadCalendarDataNext ==
  /\ loadingSubscription = "open"
  /\ receivedAsSent' = server
  /\ received' = server
  /\ cycles' = ToDates(server)
  /\ monthDays' = generateCalendarGrid(currentDate, cycles', today)
  /\ calIsLoading' = FALSE
  /\ isNavigating' = FALSE
  /\ loadingSubscription' = "closed"
  /\ UNCHANGED <<server, today, currentDate, currentYear, calErrorMessage>>
  /\ UNCHANGED <<dashVars, apiVars, securityVars, stepVars, accountVars>>

\* The error handler of loadCalendarData.
loadCalendarDataError ==
  /\ loadingSubscription = "open"
  /\ calErrorMessage' = "Could not load calendar data. Please try again later."
  /\ calIsLoading' = FALSE
  /\ isNavigating' = FALSE
  /\ monthDays' = generateCalendarGrid(currentDate, cycles, today)
  /\ loadingSubscription' = "closed"
  /\ UNCHANGED <<today, currentDate, currentYear, cycles>>
  /\ UNCHANGED <<serviceVars, dashVars, apiVars, securityVars, stepVars, accountVars>>

\* ngOnDestroy() while the answer is still awaited: no handler will run.
ngOnDestroy ==
  /\ loadingSubscription = "open"
  /\ loadingSubscription' = "unsubscribed"
  /\ UNCHANGED <<today, currentDate, currentYear, monthDays, cycles,
                 calIsLoading, calErrorMessage, isNavigating>>
  /\ UNCHANGED <<serviceVars, dashVars, apiVars, securityVars, stepVars, accountVars>>

\* newDate.setMonth(newDate.getMonth() + direction): the day of month stays
\* and overflows into the following month when the target month is shorter.
SetMonth(n, month) == DayNum(CivilOf[n].y, month, CivilOf[n].d)

\* navigateMonth(direction) when no load is in progress.
navigateMonth(direction) ==
  /\ ~isNavigating
  /\ LET newDate == SetMonth(currentDate, CivilOf[currentDate].m + direction)
     IN  /\ newDate \in DayNums
         /\ MonthIndex(newDate) - MonthIndex(today) \in (0 - NavMonths)..NavMonths
         /\ currentDate' = newDate
         /\ currentYear' = CivilOf[newDate].y
         /\ monthDays' = generateCalendarGrid(newDate, cycles, today)
  /\ UNCHANGED <<today, cycles, calIsLoading, calErrorMessage, isNavigating,
                 loadingSubscription>>
  /\ UNCHANGED <<serviceVars, dashVars, apiVars, securityVars, stepVars, accountVars>>


(***************************************************************************)
(* CyclesController over the PeriodCycle and CycleSymptoms tables          *)
(*                                                                         *)
(* A request body carries its dates as the cycle service writes them,      *)
(* "YYYY-MM-DD": a DateTime at midnight, which the model counts in days.   *)
(* Each handler runs as one step.                                          *)
(***************************************************************************)
Users == {1, 2}

DateTimes == 0..MaxApiDay

Intensities == {1, 6}
SymptomIds == {1}
NotesChoices == {"", "n"}

\* CycleSymptomDto (the name is not stored).
SymptomDtos == [SymptomId : SymptomIds, Intensity : Intensities, Date : DateTimes]
SymptomDtoLists == {<<>>} \cup { <<d>> : d \in SymptomDtos }

\* What the database does with the statements of one request: whether the
\* statement on PeriodCycle, the DELETE on CycleSymptoms and the INSERTs into
\* CycleSymptoms go through (the repositories turn an exception into false).
DbOutcomes ==
  { [cycle |-> TRUE, del |-> TRUE, ins |-> TRUE],
    [cycle |-> FALSE, del |-> TRUE, ins |-> TRUE],
    [cycle |-> TRUE, del |-> FALSE, ins |-> TRUE],
    [cycle |-> TRUE, del |-> TRUE, ins |-> FALSE] }

\* The last request handled (who sent it, for whom, with which dates) and
\* its answer.
NoRequest ==
  [op |-> "none", auth |-> 0, UserId |-> 0, StartDate |-> 0, EndDate |-> 0]

\* PeriodCycleRepository.GetById: the rows with that id (none or one).
GetById(id) == { r \in PeriodCycle : r.cycle_id = id }

\* (variant: the comparison of the two dates left out)
EndBeforeStart_Unchecked(cycleData) == FALSE

\* cycleData.EndDate < cycleData.StartDate
EndBeforeStart(cycleData) == cycleData.EndDate < cycleData.StartDate

\* "Ensure symptom date is within cycle range".
ClampSymptomDate(symptomDate, cycleData) ==
  LET d1 == IF symptomDate < cycleData.StartDate THEN cycleData.StartDate ELSE symptomDate
  IN  IF d1 > cycleData.EndDate THEN cycleData.EndDate ELSE d1

\* The rows the foreach over cycleData.Symptoms inserts for cycle cycleId
\* (none when the INSERTs fail: a failure is logged and skipped).  The
\* generated cycle_symptom_id is read by nobody and is left out of the rows.
SymptomRows(cycleId, cycleData, db) ==
  IF ~db.ins THEN {}
  ELSE { [cycle_id |-> cycleId,
          symptom_id |-> cycleData.Symptoms[i].SymptomId,
          intensity |-> cycleData.Symptoms[i].Intensity,
          date |-> ClampSymptomDate(cycleData.Symptoms[i].Date, cycleData)] :
         i \in 1..Len(cycleData.Symptoms) }

Answer(req, status) ==
  /\ lastRequest' = req
  /\ lastStatus' = status
  /\ lastCycles' = <<>>

Refuse(req, status) ==
  /\ Answer(req, status)
  /\ UNCHANGED <<PeriodCycle, CycleSymptoms, nextCycleId>>

\* return Forbid("..."): the text is taken as the name of an authentication
\* scheme.  The answer is 403 if the host handles that scheme; Program.cs
\* registers none, and then the framework fails the request with 500.
ForbidStatuses == {403, 500}

Forbid(req) == \E status \in ForbidStatuses : Refuse(req, status)

\* POST api/cycles as user auth.
CreateCycle(auth, cycleData) ==
  LET req == [op |-> "create", auth |-> auth,
              UserId |-> cycleData.UserId, StartDate |-> cycleData.StartDate,
              EndDate |-> cycleData.EndDate]
  IN
  /\ nextCycleId <= MaxCycleRows
  /\ Cardinality(CycleSymptoms) + Len(cycleData.Symptoms) <= MaxSymptomRows
  /\ IF auth # cycleData.UserId THEN Forbid(req)
     ELSE IF EndBeforeStart(cycleData) THEN Refuse(req, 400)
     ELSE \E db \in DbOutcomes :
       IF ~db.cycle THEN Refuse(req, 400)
       ELSE /\ PeriodCycle' = PeriodCycle \cup
                 {[cycle_id |-> nextCycleId, user_id |-> cycleData.UserId,
                   start_date |-> cycleData.StartDate,
                   end_date |-> cycleData.EndDate,
                   notes |-> cycleData.Notes]}
            /\ nextCycleId' = nextCycleId + 1
            /\ CycleSymptoms' = CycleSymptoms \cup SymptomRows(nextCycleId, cycleData, db)
            /\ Answer(req, 201)
  /\ UNCHANGED <<serviceVars, dashVars, calVars, securityVars, stepVars, accountVars>>

\* PeriodCycleRepository.UpdateCycle: UPDATE .. WHERE cycle_id AND user_id.
UpdatedTable(cycle) ==
  { IF r.cycle_id = cycle.CycleId /\ r.user_id = cycle.UserId
    THEN [r EXCEPT !.start_date = cycle.StartDate,
                   !.end_date = cycle.EndDate,
                   !.notes = cycle.Notes]
    ELSE r : r \in PeriodCycle }

\* CycleSymptomRepository.DeleteCycleSymptomsByCycleId.
WithoutSymptomsOf(cycleId, db) ==
  IF db.del THEN { r \in CycleSymptoms : r.cycle_id # cycleId } ELSE CycleSymptoms

\* PUT api/cycles/{id} as user auth.
UpdateCycle(auth, id, cycleData) ==
  LET req == [op |-> "update", auth |-> auth,
              UserId |-> cycleData.UserId, StartDate |-> cycleData.StartDate,
              EndDate |-> cycleData.EndDate]
  IN
  /\ Cardinality(CycleSymptoms) + Len(cycleData.Symptoms) <= MaxSymptomRows
  /\ IF auth # cycleData.UserId THEN Forbid(req)
     ELSE IF id # cycleData.CycleId THEN Refuse(req, 400)
     ELSE IF GetById(id) = {} THEN Refuse(req, 404)
     ELSE IF EndBeforeStart(cycleData) THEN Refuse(req, 400)
     ELSE \E db \in DbOutcomes :
       IF ~db.cycle THEN Refuse(req, 400)
       ELSE /\ PeriodCycle' = UpdatedTable(cycleData)
            /\ CycleSymptoms' = WithoutSymptomsOf(id, db) \cup SymptomRows(id, cycleData, db)
            /\ UNCHANGED nextCycleId
            /\ Answer(req, 200)
  /\ UNCHANGED <<serviceVars, dashVars, calVars, securityVars, stepVars, accountVars>>

\* DELETE api/cycles/{id} as user auth.
DeleteCycle(auth, id) ==
  LET req == [NoRequest EXCEPT !.op = "delete", !.auth = auth]
  IN
  /\ IF GetById(id) = {} THEN Refuse(req, 404)
     ELSE IF \E r \in GetById(id) : r.user_id # auth THEN Refuse(req, 403)
     ELSE \E db \in DbOutcomes :
       /\ CycleSymptoms' = WithoutSymptomsOf(id, db)
       /\ IF ~db.cycle
          THEN /\ Answer(req, 400)
               /\ UNCHANGED PeriodCycle
          ELSE /\ PeriodCycle' =
                    { r \in PeriodCycle : ~(r.cycle_id = id /\ r.user_id = auth) }
               /\ Answer(req, 204)
       /\ UNCHANGED nextCycleId
  /\ UNCHANGED <<serviceVars, dashVars, calVars, securityVars, stepVars, accountVars>>

\* GetCyclesByUserId and, for each cycle, GetSymptomsByCycleId: the DTOs of
\* the user's cycles.  The symptoms of a DTO are kept as a set here (the
\* query orders them by date).
CycleDtos(userId, cycleTable, symptomTable) ==
  { [CycleId |-> r.cycle_id, UserId |-> r.user_id, StartDate |-> r.start_date,
     EndDate |-> r.end_date, Notes |-> r.notes,
     Symptoms |-> { [SymptomId |-> o.symptom_id, Intensity |-> o.intensity,
                     Date |-> o.date] :
                    o \in { x \in symptomTable : x.cycle_id = r.cycle_id } }] :
    r \in { x \in cycleTable : x.user_id = userId } }

\* ORDER BY start_date DESC: the lists that hold each DTO once, a later
\* start date never after an earlier one.
DescendingLists(dtos) ==
  { list \in [1..Cardinality(dtos) -> dtos] :
      \A i, j \in 1..Cardinality(dtos) :
        i < j => (list[i] # list[j] /\ list[i].StartDate >= list[j].StartDate) }

\* GET api/cycles as user auth.
GetUserCycles(auth) ==
  /\ lastCycles' \in DescendingLists(CycleDtos(auth, PeriodCycle, CycleSymptoms))
  /\ lastRequest' = [NoRequest EXCEPT !.op = "get", !.auth = auth]
  /\ lastStatus' = 200
  /\ UNCHANGED <<PeriodCycle, CycleSymptoms, nextCycleId>>
  /\ UNCHANGED <<serviceVars, dashVars, calVars, securityVars, stepVars, accountVars>>

\* UpdateCycle up to its last check (lines 175-196): the request has passed
\* and has not yet reached the repositories.
UpdateCycleChecked(auth, id, cycleData) ==
  /\ Cardinality(updatesInFlight) < MaxInFlight
  /\ auth = cycleData.UserId
  /\ id = cycleData.CycleId
  /\ GetById(id) # {}
  /\ ~EndBeforeStart(cycleData)
  /\ updatesInFlight' = updatesInFlight \cup {cycleData}
  /\ UNCHANGED <<serviceVars, dashVars, calVars, apiVars, securityVars, accountVars>>

\* The rest of that UpdateCycle (lines 198-270), on the tables as they are
\* by then.
UpdateCycleWritten(cycleData) ==
  LET req == [op |-> "update", auth |-> cycleData.UserId,
              UserId |-> cycleData.UserId, StartDate |-> cycleData.StartDate,
              EndDate |-> cycleData.EndDate]
  IN
  /\ cycleData \in updatesInFlight
  /\ Cardinality(CycleSymptoms) + Len(cycleData.Symptoms) <= MaxSymptomRows
  /\ updatesInFlight' = updatesInFlight \ {cycleData}
  /\ \E db \in DbOutcomes :
       IF ~db.cycle THEN Refuse(req, 400)
       ELSE /\ PeriodCycle' = UpdatedTable(cycleData)
            /\ CycleSymptoms' = WithoutSymptomsOf(cycleData.CycleId, db)
                                  \cup SymptomRows(cycleData.CycleId, cycleData, db)
            /\ UNCHANGED nextCycleId
            /\ Answer(req, 200)
  /\ UNCHANGED <<serviceVars, dashVars, calVars, securityVars, accountVars>>

\* Cycle ids a request may name: those ever given out and one more.
RequestIds == 1..(MaxCycleRows + 1)

CreateCycleDtos ==
  [UserId : Users, StartDate : DateTimes, EndDate : DateTimes,
   Notes : NotesChoices, Symptoms : SymptomDtoLists]

UpdateCycleDTOs ==
  [CycleId : RequestIds, UserId : Users, StartDate : DateTimes,
   EndDate : DateTimes, Notes : NotesChoices, Symptoms : SymptomDtoLists]

(***************************************************************************)
(* Basic authentication on the server                                      *)
(*                                                                         *)
(* A string is the sequence of its character codes.  The texts here are    *)
(* ASCII, so the UTF-8 bytes of a string are its character codes.          *)
(***************************************************************************)
Colon == 58
Space == 32
Base64Pad == 61
BasicPrefix == <<66, 97, 115, 105, 99, Space>>

\* The Base64 alphabet: A-Z, a-z, 0-9, '+', '/'.
Base64Char(v) ==
  IF v < 26 THEN 65 + v
  ELSE IF v < 52 THEN 97 + (v - 26)
  ELSE IF v < 62 THEN 48 + (v - 52)
  ELSE IF v = 62 THEN 43 ELSE 47

Base64Value(c) ==
  IF c \in 65..90 THEN c - 65
  ELSE IF c \in 97..122 THEN c - 97 + 26
  ELSE IF c \in 48..57 THEN c - 48 + 52
  ELSE IF c = 43 THEN 62
  ELSE IF c = 47 THEN 63 ELSE -1

\* Convert.ToBase64String: three bytes make four characters, a last group of
\* one or two bytes is padded with '='.
RECURSIVE ToBase64String(_)
ToBase64String(bytes) ==
  IF Len(bytes) = 0 THEN <<>>
  ELSE IF Len(bytes) = 1 THEN
    <<Base64Char(bytes[1] \div 4), Base64Char((bytes[1] % 4) * 16),
      Base64Pad, Base64Pad>>
  ELSE IF Len(bytes) = 2 THEN
    <<Base64Char(bytes[1] \div 4),
      Base64Char((bytes[1] % 4) * 16 + bytes[2] \div 16),
      Base64Char((bytes[2] % 16) * 4), Base64Pad>>
  ELSE
    <<Base64Char(bytes[1] \div 4),
      Base64Char((bytes[1] % 4) * 16 + bytes[2] \div 16),
      Base64Char((bytes[2] % 16) * 4 + bytes[3] \div 64),
      Base64Char(bytes[3] % 64)>>
    \o ToBase64String(SubSeq(bytes, 4, Len(bytes)))

\* The bytes of one group of four characters.
QuadBytes(v1, v2, v3, v4, pads) ==
  IF pads = 2 THEN <<v1 * 4 + v2 \div 16>>
  ELSE IF pads = 1 THEN <<v1 * 4 + v2 \div 16, (v2 % 16) * 16 + v3 \div 4>>
  ELSE <<v1 * 4 + v2 \div 16, (v2 % 16) * 16 + v3 \div 4, (v3 % 4) * 64 + v4>>

\* The text is well formed: whole groups of four characters of the alphabet,
\* with '=' only as the last or the last two characters.
IsBase64(chars) ==
  /\ Len(chars) % 4 = 0
  /\ \A i \in 1..Len(chars) :
       \/ Base64Value(chars[i]) >= 0
       \/ /\ chars[i] = Base64Pad
          /\ i >= Len(chars) - 1
          /\ i = Len(chars) - 1 => chars[Len(chars)] = Base64Pad

PadsOf(chars) ==
  IF chars[Len(chars)] # Base64Pad THEN 0
  ELSE IF chars[Len(chars) - 1] # Base64Pad THEN 1 ELSE 2

RECURSIVE FromBase64Quads(_)
FromBase64Quads(chars) ==
  IF Len(chars) = 0 THEN <<>>
  ELSE IF Len(chars) = 4 THEN
    QuadBytes(Base64Value(chars[1]), Base64Value(chars[2]),
              Base64Value(chars[3]), Base64Value(chars[4]), PadsOf(chars))
  ELSE
    QuadBytes(Base64Value(chars[1]), Base64Value(chars[2]),
              Base64Value(chars[3]), Base64Value(chars[4]), 0)
    \o FromBase64Quads(SubSeq(chars, 5, Len(chars)))

\* Convert.FromBase64String, which throws a FormatException on a text that
\* is not well formed.
FromBase64String(chars) ==
  IF IsBase64(chars) THEN [ok |-> TRUE, bytes |-> FromBase64Quads(chars)]
  ELSE [ok |-> FALSE, bytes |-> <<>>]

\* string.Split(separator): the pieces between the separators, empty pieces
\* included.
FirstIndexOf(s, sep) ==
  IF \E i \in 1..Len(s) : s[i] = sep
  THEN CHOOSE i \in 1..Len(s) : s[i] = sep /\ \A j \in 1..(i - 1) : s[j] # sep
  ELSE 0

RECURSIVE Split(_, _)
SplitAt(s, sep, i) ==
  IF i = 0 THEN <<s>>
  ELSE <<SubSeq(s, 1, i - 1)>> \o Split(SubSeq(s, i + 1, Len(s)), sep)

Split(s, sep) == SplitAt(s, sep, FirstIndexOf(s, sep))

\* AuthenticationHelper.Encrypt
Encrypt(username_, password_) ==
  BasicPrefix \o ToBase64String(username_ \o <<Colon>> \o password_)

\* AuthenticationHelper.Decrypt.  An exception (an index out of range, a
\* FormatException) leaves the out parameters unset.
Thrown == [thrown |-> TRUE, username |-> <<>>, password |-> <<>>]

DecryptParts(parts) ==
  IF Len(parts) < 2 THEN Thrown
  ELSE [thrown |-> FALSE, username |-> parts[1], password |-> parts[2]]

DecryptUsernameAndPassword(decoded) ==
  IF decoded.ok THEN DecryptParts(Split(decoded.bytes, Colon)) ELSE Thrown

DecryptAuth(headerParts) ==
  IF Len(headerParts) < 2 THEN Thrown
  ELSE DecryptUsernameAndPassword(FromBase64String(headerParts[2]))

Decrypt(encryptedHeader_) == DecryptAuth(Split(encryptedHeader_, Space))

\* The texts the helper is applied to: letters and colons.
Texts == UNION {[1..k -> {97, Colon}] : k \in 0..MaxTextLen}

NotDecrypted == [thrown |-> FALSE, username |-> <<0>>, password |-> <<0>>]

EncryptStep ==
  /\ encryptedHeader' = Encrypt(username, password)
  /\ decrypted' = NotDecrypted
  /\ UNCHANGED <<username, password>>
  /\ UNCHANGED <<serviceVars, dashVars, calVars, apiVars, middlewareVars, clientVars, stepVars, accountVars>>

DecryptStep ==
  /\ encryptedHeader # <<>>
  /\ decrypted' = Decrypt(encryptedHeader)
  /\ UNCHANGED <<username, password, encryptedHeader>>
  /\ UNCHANGED <<serviceVars, dashVars, calVars, apiVars, middlewareVars, clientVars, stepVars, accountVars>>

(***************************************************************************)
(* The Users table, AuthController.Login and BasicAuthenticationMiddleware *)
(***************************************************************************)
\* The rows of the Users table: two registered accounts.  Register accepts
\* any password that is not blank, the second one holds a colon.
UserRows ==
  { [UserId |-> 1, Name |-> <<65>>, Email |-> <<97>>, Pw |-> <<97>>],
    [UserId |-> 2, Name |-> <<66>>, Email |-> <<97, 97>>,
      Pw |-> <<97, Colon>>] }

NoUser == [UserId |-> 0, Name |-> <<>>, Email |-> <<>>, Pw |-> <<>>]

\* UserRepository.GetUserByEmail
GetUserByEmail(email) ==
  IF \E u \in UserRows : u.Email = email
  THEN CHOOSE u \in UserRows : u.Email = email
  ELSE NoUser

IsNullOrWhiteSpace(text) == \A i \in 1..Len(text) : text[i] = Space

\* AuthController.Login: the status and the body of the answer.
NoBody == [userId |-> 0, name |-> <<>>, email |-> <<>>, token |-> <<>>]

Login(credentials) ==
  IF IsNullOrWhiteSpace(credentials.email) \/ IsNullOrWhiteSpace(credentials.password)
  THEN [status |-> 400, body |-> NoBody]
  ELSE IF GetUserByEmail(credentials.email) = NoUser
          \/ GetUserByEmail(credentials.email).Pw # credentials.password
  THEN [status |-> 401, body |-> NoBody]
  ELSE [status |-> 200,
        body |-> [userId |-> GetUserByEmail(credentials.email).UserId,
                  name |-> GetUserByEmail(credentials.email).Name,
                  email |-> GetUserByEmail(credentials.email).Email,
                  token |-> Encrypt(credentials.email, credentials.password)]]

\* The endpoints a request is routed to, and those marked [AllowAnonymous].
Endpoints ==
  {"AuthController.Login", "AuthController.Register",
   "SymptomController.GetAllSymptoms", "CyclesController.GetUserCycles"}

AllowAnonymous == {"AuthController.Login", "AuthController.Register"}

StartsWith(text, prefix) ==
  /\ Len(text) >= Len(prefix)
  /\ SubSeq(text, 1, Len(prefix)) = prefix

\* What the middleware makes of a request: whether it calls the next
\* delegate (the endpoint then runs), the status it sets itself (0 when it
\* sets none) and the items it stores for the controller.
NoItems == [UserId |-> 0, UserEmail |-> <<>>]

CallNext(items) == [next |-> TRUE, StatusCode |-> 0, Items |-> items]

Unauthorized == [next |-> FALSE, StatusCode |-> 401, Items |-> NoItems]

ValidateUser(credentials, user) ==
  IF user # NoUser /\ user.Pw = credentials.password
  THEN CallNext([UserId |-> user.UserId, UserEmail |-> credentials.username])
  ELSE Unauthorized

ValidateCredentials(credentials) ==
  IF credentials.thrown THEN Unauthorized
  ELSE ValidateUser(credentials, GetUserByEmail(credentials.username))

InvokeAsyncOn(request) ==
  IF request.Method = "OPTIONS" THEN CallNext(NoItems)
  ELSE IF request.Endpoint \in AllowAnonymous THEN CallNext(NoItems)
  ELSE IF request.Authorization = <<>> \/ ~StartsWith(request.Authorization, BasicPrefix)
  THEN Unauthorized
  ELSE ValidateCredentials(Decrypt(request.Authorization))

\* The status the client receives: the middleware's own, or the endpoint's.
\* GetAllSymptoms always answers Ok; 200 stands for the other endpoints'
\* answers, which their own sections describe.
StatusOf(context) == IF context.next THEN 200 ELSE context.StatusCode

\* The Authorization headers of the requests: none, another scheme, texts
\* that cannot be decoded or hold no colon, and the encoded credentials.
AuthorizationHeaders ==
  {<<>>, <<66>>, BasicPrefix, BasicPrefix \o <<33>>,
   BasicPrefix \o ToBase64String(<<97>>)}
  \cup {Encrypt(u, p) : u \in Texts, p \in Texts}

HttpRequests ==
  [Method : {"GET", "POST", "OPTIONS"}, Endpoint : Endpoints,
   Authorization : AuthorizationHeaders]

NoHttpRequest == [Method |-> "", Endpoint |-> "", Authorization |-> <<>>]

InvokeAsync(request) ==
  /\ httpRequest' = request
  /\ httpContext' = InvokeAsyncOn(request)
  /\ UNCHANGED <<serviceVars, dashVars, calVars, apiVars, helperVars, clientVars, stepVars, accountVars>>

(***************************************************************************)
(* The browser: localStorage, AuthService, authInterceptor and authGuard   *)
(***************************************************************************)
\* What localStorage.getItem answers: null, or the stored text.
NullItem == [null |-> TRUE, text |-> <<>>]
Item(text) == [null |-> FALSE, text |-> text]
TrueText == <<116, 114, 117, 101>>

EmptyStorage ==
  [authHeader |-> NullItem, isAuthenticated |-> NullItem, userEmail |-> NullItem,
   userId |-> NullItem, currentUser |-> NullItem]

\* Number.prototype.toString
RECURSIVE toString(_)
toString(n) == IF n < 10 THEN <<48 + n>> ELSE toString(n \div 10) \o <<48 + (n % 10)>>

\* JSON.stringify of the body of a login answer:
\* {"userId":1,"name":"..","email":"..","token":".."}
JsonStringify(body) ==
  <<123, 34, 117, 115, 101, 114, 73, 100, 34, 58>> \o toString(body.userId)
  \o <<44, 34, 110, 97, 109, 101, 34, 58, 34>> \o body.name
  \o <<34, 44, 34, 101, 109, 97, 105, 108, 34, 58, 34>> \o body.email
  \o <<34, 44, 34, 116, 111, 107, 101, 110, 34, 58, 34>> \o body.token
  \o <<34, 125>>

\* The value of currentUserSubject: null, or the body of a login answer.
NullUser == [null |-> TRUE, value |-> NoBody]
UserValue(body) == [null |-> FALSE, value |-> body]

\* AuthService.isAuthenticated
isAuthenticatedOf(subject, storage) ==
  ~subject.null \/ storage.isAuthenticated = Item(TrueText)

isAuthenticated == isAuthenticatedOf(currentUserSubject, localStorage)

\* The credentials typed into the login form: those of the two accounts, a
\* wrong password and a missing one.
LoginBodies ==
  { [email |-> <<97>>, password |-> <<97>>],
    [email |-> <<97, 97>>, password |-> <<97, Colon>>],
    [email |-> <<97>>, password |-> <<97, Colon>>],
    [email |-> <<97>>, password |-> <<>>] }

NothingSeen == [kind |-> "none", status |-> 0, body |-> NoBody]

\* The failures of an HTTP call: the status the server answers, or 0 when no
\* answer arrives.
NetworkError == 0

\* AuthService.login, subscribed: the POST is sent.  The interceptor passes
\* /auth/login on without a header.
login(credentials) ==
  /\ credentials \notin loginsInFlight
  /\ Cardinality(loginsInFlight) < MaxInFlight
  /\ loginsInFlight' = loginsInFlight \cup {credentials}
  /\ authEvent' = "login"
  /\ UNCHANGED <<localStorage, currentUserSubject, requestsInFlight, subscriberSaw,
                 routerUrl, guardResult, loginSucceeded, answered401>>
  /\ UNCHANGED <<serviceVars, dashVars, calVars, apiVars, helperVars, middlewareVars, stepVars, accountVars>>

\* The answer is 200: tap stores the body, then the subscriber receives it.
loginNext(credentials) ==
  /\ credentials \in loginsInFlight
  /\ Login(credentials).status = 200
  /\ loginsInFlight' = loginsInFlight \ {credentials}
  /\ localStorage' =
       [authHeader |-> Item(Login(credentials).body.token),
        isAuthenticated |-> Item(TrueText),
        userEmail |-> Item(Login(credentials).body.email),
        userId |-> Item(toString(Login(credentials).body.userId)),
        currentUser |-> Item(JsonStringify(Login(credentials).body))]
  /\ currentUserSubject' = UserValue(Login(credentials).body)
  /\ subscriberSaw' = [kind |-> "next", status |-> 200, body |-> Login(credentials).body]
  /\ authEvent' = "loginNext"
  /\ loginSucceeded' = TRUE
  /\ answered401' = FALSE
  /\ UNCHANGED <<requestsInFlight, routerUrl, guardResult>>
  /\ UNCHANGED <<serviceVars, dashVars, calVars, apiVars, helperVars, middlewareVars, stepVars, accountVars>>

\* The call fails: catchError rethrows the error to the subscriber.
loginError(credentials, status) ==
  /\ credentials \in loginsInFlight
  /\ status = NetworkError \/ (status = Login(credentials).status /\ status # 200)
  /\ loginsInFlight' = loginsInFlight \ {credentials}
  /\ subscriberSaw' = [kind |-> "error", status |-> status, body |-> NoBody]
  /\ authEvent' = "loginError"
  /\ UNCHANGED <<localStorage, currentUserSubject, requestsInFlight,
                 routerUrl, guardResult, loginSucceeded, answered401>>
  /\ UNCHANGED <<serviceVars, dashVars, calVars, apiVars, helperVars, middlewareVars, stepVars, accountVars>>

\* AuthService.logout
logout_KeepsUser ==
  /\ localStorage' = EmptyStorage
  /\ currentUserSubject' = currentUserSubject
  /\ authEvent' = "logout"
  /\ loginSucceeded' = FALSE
  /\ UNCHANGED <<loginsInFlight, requestsInFlight, subscriberSaw, routerUrl,
                 guardResult, answered401>>
  /\ UNCHANGED <<serviceVars, dashVars, calVars, apiVars, helperVars, middlewareVars, stepVars, accountVars>>

logout ==
  /\ localStorage' = EmptyStorage
  /\ currentUserSubject' = NullUser
  /\ authEvent' = "logout"
  /\ loginSucceeded' = FALSE
  /\ UNCHANGED <<loginsInFlight, requestsInFlight, subscriberSaw, routerUrl,
                 guardResult, answered401>>
  /\ UNCHANGED <<serviceVars, dashVars, calVars, apiVars, helperVars, middlewareVars, stepVars, accountVars>>

\* authInterceptor on a call to the API: with a stored header the call is
\* sent with it and its errors are caught, otherwise the call goes out as
\* it is.
Intercepted(item) ==
  IF ~item.null /\ item.text # <<>>
  THEN [Authorization |-> item.text, caught |-> TRUE]
  ELSE [Authorization |-> <<>>, caught |-> FALSE]

apiCall ==
  /\ Intercepted(localStorage.authHeader) \notin requestsInFlight
  /\ Cardinality(requestsInFlight) < MaxInFlight
  /\ requestsInFlight' = requestsInFlight \cup {Intercepted(localStorage.authHeader)}
  /\ authEvent' = "apiCall"
  /\ UNCHANGED <<localStorage, currentUserSubject, loginsInFlight, subscriberSaw,
                 routerUrl, guardResult, loginSucceeded, answered401>>
  /\ UNCHANGED <<serviceVars, dashVars, calVars, apiVars, helperVars, middlewareVars, stepVars, accountVars>>

\* The status the server answers to a call of the API with this header.
ApiStatus(sent) ==
  StatusOf(InvokeAsyncOn([Method |-> "GET", Endpoint |-> "CyclesController.GetUserCycles",
                          Authorization |-> sent.Authorization]))

\* The calls that can be in flight: without header, or with a token that a
\* login stored.
SentCalls ==
  {Intercepted(NullItem)}
  \cup {Intercepted(Item(Login(credentials).body.token)) : credentials \in LoginBodies}

\* A call sent with the stored header is answered 401: catchError removes
\* the five keys and navigates to /login.
apiUnauthorized(sent) ==
  /\ sent \in requestsInFlight
  /\ sent.caught
  /\ ApiStatus(sent) = 401
  /\ requestsInFlight' = requestsInFlight \ {sent}
  /\ localStorage' = EmptyStorage
  /\ routerUrl' = "/login"
  /\ authEvent' = "apiUnauthorized"
  /\ answered401' = TRUE
  /\ UNCHANGED <<currentUserSubject, loginsInFlight, subscriberSaw, guardResult,
                 loginSucceeded>>
  /\ UNCHANGED <<serviceVars, dashVars, calVars, apiVars, helperVars, middlewareVars, stepVars, accountVars>>

\* Any other answer, and a 401 to a call sent without header, pass through.
apiAnswered(sent) ==
  /\ sent \in requestsInFlight
  /\ ~(sent.caught /\ ApiStatus(sent) = 401)
  /\ requestsInFlight' = requestsInFlight \ {sent}
  /\ authEvent' = "apiAnswered"
  /\ UNCHANGED <<localStorage, currentUserSubject, loginsInFlight, subscriberSaw,
                 routerUrl, guardResult, loginSucceeded, answered401>>
  /\ UNCHANGED <<serviceVars, dashVars, calVars, apiVars, helperVars, middlewareVars, stepVars, accountVars>>

\* authGuard on a protected route.
ProtectedUrls == {"/dashboard", "/calendar"}

authGuard(url) ==
  /\ IF isAuthenticated
     THEN guardResult' = TRUE /\ routerUrl' = url
     ELSE guardResult' = FALSE /\ routerUrl' = "/login"
  /\ authEvent' = "authGuard"
  /\ UNCHANGED <<localStorage, currentUserSubject, loginsInFlight, requestsInFlight,
                 subscriberSaw, loginSucceeded, answered401>>
  /\ UNCHANGED <<serviceVars, dashVars, calVars, apiVars, helperVars, middlewareVars, stepVars, accountVars>>

(***************************************************************************)
(* Accounts: AuthController.Register and UserController                    *)
(*                                                                         *)
(* Every handler reads and writes the table Users statement by statement,  *)
(* without a transaction.  Register and UpdateUser look the email up and   *)
(* write afterwards, so each of them is two steps here.                    *)
(***************************************************************************)
\* "a" and "A": the same to OrdinalIgnoreCase, two emails to "email = @email".
Emails == {<<97>>, <<65>>}

\* Accounts are registered with the password "a"; a password is changed to "b".
RegisterRequests == [Name : {<<65>>, <<66>>}, Email : Emails, Password : {<<97>>}]
UpdatedUsers == [UserId : 1..MaxUserRows, Name : {<<66>>}, Email : Emails]

\* string.Equals(a, b, StringComparison.OrdinalIgnoreCase)
EqualsIgnoreCase(a, b) ==
  LET Upper(c) == IF c \in 97..122 THEN c - 32 ELSE c
  IN  /\ Len(a) = Len(b)
      /\ \A i \in 1..Len(a) : Upper(a[i]) = Upper(b[i])

\* UserRepository.EmailExists: SELECT COUNT(*) .. WHERE email = @email
EmailExists(email) == \E u \in UserTable : u.Email = email

\* UserRepository.GetUserById
GetUserById(id) == { u \in UserTable : u.UserId = id }

AnswerUser(op, auth, userId, status) ==
  lastUserAnswer' = [op |-> op, auth |-> auth, UserId |-> userId, status |-> status]

\* POST api/auth/register up to EmailExists.  It needs no authentication.
Register(request) ==
  /\ IF \/ IsNullOrWhiteSpace(request.Name)
        \/ IsNullOrWhiteSpace(request.Email)
        \/ IsNullOrWhiteSpace(request.Password)
     THEN /\ AnswerUser("register", 0, 0, 400)
          /\ UNCHANGED writesInFlight
     ELSE IF EmailExists(request.Email)
     THEN /\ AnswerUser("register", 0, 0, 409)
          /\ UNCHANGED writesInFlight
     ELSE /\ Cardinality(writesInFlight) < MaxWritesInFlight
          /\ writesInFlight' = writesInFlight \cup
               {[op |-> "register", auth |-> 0, UserId |-> 0, Name |-> request.Name,
                 Email |-> request.Email, Pw |-> request.Password]}
          /\ UNCHANGED lastUserAnswer
  /\ UNCHANGED <<UserTable, nextUserId>>
  /\ UNCHANGED <<serviceVars, dashVars, calVars, apiVars, securityVars, stepVars>>

\* The rest of Register: InsertUser and the answer.
RegisterInsertUser(write) ==
  /\ write \in writesInFlight
  /\ write.op = "register"
  /\ nextUserId <= MaxUserRows
  /\ writesInFlight' = writesInFlight \ {write}
  /\ \E success \in BOOLEAN :
       IF success
       THEN /\ UserTable' = UserTable \cup
                 {[UserId |-> nextUserId, Name |-> write.Name,
                   Email |-> write.Email, Pw |-> write.Pw]}
            /\ nextUserId' = nextUserId + 1
            /\ AnswerUser("register", 0, nextUserId, 201)
       ELSE /\ AnswerUser("register", 0, 0, 400)
            /\ UNCHANGED <<UserTable, nextUserId>>
  /\ UNCHANGED <<serviceVars, dashVars, calVars, apiVars, securityVars, stepVars>>

\* PUT api/user as user auth, up to the conflict check.  A row that holds
\* the new email is a conflict when it is another user's; the user's own row
\* cannot hold it here, its email differing from the new one.
UpdateUser(auth, updatedUser) ==
  /\ GetUserById(auth) # {}
  /\ IF GetUserById(updatedUser.UserId) = {}
     THEN /\ AnswerUser("update", auth, updatedUser.UserId, 404)
          /\ UNCHANGED writesInFlight
     ELSE IF /\ \E existing \in GetUserById(updatedUser.UserId) :
                  ~EqualsIgnoreCase(existing.Email, updatedUser.Email)
             /\ \E conflict \in UserTable :
                  /\ conflict.Email = updatedUser.Email
                  /\ conflict.UserId # updatedUser.UserId
     THEN /\ AnswerUser("update", auth, updatedUser.UserId, 409)
          /\ UNCHANGED writesInFlight
     ELSE /\ Cardinality(writesInFlight) < MaxWritesInFlight
          /\ writesInFlight' = writesInFlight \cup
               {[op |-> "update", auth |-> auth, UserId |-> updatedUser.UserId,
                 Name |-> updatedUser.Name, Email |-> updatedUser.Email,
                 Pw |-> <<>>]}
          /\ UNCHANGED lastUserAnswer
  /\ UNCHANGED <<UserTable, nextUserId>>
  /\ UNCHANGED <<serviceVars, dashVars, calVars, apiVars, securityVars, stepVars>>

\* The rest of UpdateUser: UPDATE Users SET name, email WHERE user_id.
\* UpdateData answers true whatever the number of rows.
UpdateUserWrite(write) ==
  /\ write \in writesInFlight
  /\ write.op = "update"
  /\ writesInFlight' = writesInFlight \ {write}
  /\ \E success \in BOOLEAN :
       IF success
       THEN /\ UserTable' =
                 { IF u.UserId = write.UserId
                   THEN [u EXCEPT !.Name = write.Name, !.Email = write.Email]
                   ELSE u : u \in UserTable }
            /\ AnswerUser("update", write.auth, write.UserId, 200)
       ELSE /\ AnswerUser("update", write.auth, write.UserId, 400)
            /\ UNCHANGED UserTable
  /\ UNCHANGED nextUserId
  /\ UNCHANGED <<serviceVars, dashVars, calVars, apiVars, securityVars, stepVars>>

\* PUT api/user/password as user auth.
UpdatePassword(auth, request) ==
  /\ GetUserById(auth) # {}
  /\ IF GetUserById(request.UserId) = {}
     THEN /\ AnswerUser("password", auth, request.UserId, 404)
          /\ UNCHANGED UserTable
     ELSE \E success \in BOOLEAN :
       IF success
       THEN /\ UserTable' =
                 { IF u.UserId = request.UserId
                   THEN [u EXCEPT !.Pw = request.Password]
                   ELSE u : u \in UserTable }
            /\ AnswerUser("password", auth, request.UserId, 200)
       ELSE /\ AnswerUser("password", auth, request.UserId, 400)
            /\ UNCHANGED UserTable
  /\ UNCHANGED <<nextUserId, writesInFlight>>
  /\ UNCHANGED <<serviceVars, dashVars, calVars, apiVars, securityVars, stepVars>>

\* DELETE api/user/{id} as user auth.
DeleteUser(auth, id) ==
  /\ GetUserById(auth) # {}
  /\ IF auth # id
     THEN /\ \E status \in ForbidStatuses : AnswerUser("delete", auth, id, status)
          /\ UNCHANGED UserTable
     ELSE \E success \in BOOLEAN :
       IF success
       THEN /\ UserTable' = { u \in UserTable : u.UserId # id }
            /\ AnswerUser("delete", auth, id, 204)
       ELSE /\ AnswerUser("delete", auth, id, 400)
            /\ UNCHANGED UserTable
  /\ UNCHANGED <<nextUserId, writesInFlight>>
  /\ UNCHANGED <<serviceVars, dashVars, calVars, apiVars, securityVars, stepVars>>

\* The requests that can be between their check and their write.
UserWrites ==
  [op : {"register", "update"}, auth : {0} \cup Users, UserId : 0..MaxUserRows,
   Name : {<<65>>, <<66>>}, Email : Emails, Pw : {<<>>, <<97>>}]

(***************************************************************************)
(* Specifications                                                          *)
(***************************************************************************)
\* The state after construction: the components' field initialisers, empty
\* tables, a user whose cycles are one of lists, new Date() falling on one
\* of days, empty browser storage, and the helper's arguments among texts.
Init(lists, days, texts) ==
  /\ server \in lists
  /\ received = <<>>
  /\ receivedAsSent = <<>>
  /\ recentCycles = <<>>
  /\ averageCycleLength = Undefined
  /\ averagePeriodLength = Undefined
  /\ dashIsLoading = FALSE
  /\ dashErrorMessage = ""
  /\ pendingLoad = FALSE
  /\ pendingDelete = {}
  /\ today \in days
  /\ currentDate = today
  /\ currentYear = 0
  /\ monthDays = <<>>
  /\ cycles = <<>>
  /\ calIsLoading = FALSE
  /\ calErrorMessage = ""
  /\ isNavigating = FALSE
  /\ loadingSubscription = "none"
  /\ PeriodCycle = {}
  /\ CycleSymptoms = {}
  /\ nextCycleId = 1
  /\ lastRequest = NoRequest
  /\ lastStatus = 0
  /\ lastCycles = <<>>
  /\ updatesInFlight = {}
  /\ UserTable = {}
  /\ nextUserId = 1
  /\ writesInFlight = {}
  /\ lastUserAnswer = [op |-> "none", auth |-> 0, UserId |-> 0, status |-> 0]
  /\ username \in texts
  /\ password \in texts
  /\ encryptedHeader = <<>>
  /\ decrypted = NotDecrypted
  /\ httpRequest = NoHttpRequest
  /\ httpContext = CallNext(NoItems)
  /\ localStorage = EmptyStorage
  /\ currentUserSubject = NullUser
  /\ loginsInFlight = {}
  /\ requestsInFlight = {}
  /\ subscriberSaw = NothingSeen
  /\ routerUrl = ""
  /\ guardResult = FALSE
  /\ authEvent = "none"
  /\ loginSucceeded = FALSE
  /\ answered401 = FALSE

NextDash ==
  \/ loadCycles
  \/ loadCyclesNext
  \/ loadCyclesError
  \/ \E cycleId \in 1..MaxCycles : onDeleteCycle(cycleId)
  \/ \E cycleId \in 1..MaxCycles : onDeleteCycleNext(cycleId)
  \/ \E cycleId \in 1..MaxCycles : onDeleteCycleError(cycleId)

SpecDash == Init(WireLists, {DayNum(2025, 2, 15)}, {<<>>}) /\ [][NextDash]_vars

NextCal ==
  \/ ngOnInit
  \/ loadCalendarDataNext
  \/ loadCalendarDataError
  \/ ngOnDestroy
  \/ \E direction \in {-1, 1} : navigateMonth(direction)

SpecCal == Init(WireLists, TodayChoices, {<<>>}) /\ [][NextCal]_vars

NextApi ==
  \/ \E auth \in Users, cycleData \in CreateCycleDtos : CreateCycle(auth, cycleData)
  \/ \E auth \in Users, id \in RequestIds, cycleData \in UpdateCycleDTOs :
       UpdateCycle(auth, id, cycleData)
  \/ \E auth \in Users, id \in RequestIds : DeleteCycle(auth, id)
  \/ \E auth \in Users : GetUserCycles(auth)

SpecApi == Init({<<>>}, {DayNum(2025, 2, 15)}, {<<>>}) /\ [][NextApi]_vars

\* The cycle requests with UpdateCycle in two steps, so that another request
\* can be served between its checks and its writes.
NextCycleSteps ==
  \/ \E auth \in Users, cycleData \in CreateCycleDtos : CreateCycle(auth, cycleData)
  \/ \E auth \in Users, id \in RequestIds, cycleData \in UpdateCycleDTOs :
       UpdateCycleChecked(auth, id, cycleData)
  \/ \E cycleData \in UpdateCycleDTOs : UpdateCycleWritten(cycleData)
  \/ \E auth \in Users, id \in RequestIds : DeleteCycle(auth, id)

SpecCycleSteps == Init({<<>>}, {DayNum(2025, 2, 15)}, {<<>>}) /\ [][NextCycleSteps]_vars

NextAccounts ==
  \/ \E request \in RegisterRequests : Register(request)
  \/ \E write \in UserWrites : RegisterInsertUser(write)
  \/ \E auth \in Users, updatedUser \in UpdatedUsers : UpdateUser(auth, updatedUser)
  \/ \E write \in UserWrites : UpdateUserWrite(write)
  \/ \E auth \in Users,
       request \in [UserId : 1..MaxUserRows, Password : {<<98>>}] :
       UpdatePassword(auth, request)
  \/ \E auth \in Users, id \in 1..MaxUserRows : DeleteUser(auth, id)

SpecAccounts == Init({<<>>}, {DayNum(2025, 2, 15)}, {<<>>}) /\ [][NextAccounts]_vars

NextHelper ==
  \/ EncryptStep
  \/ DecryptStep

SpecHelper == Init({<<>>}, {DayNum(2025, 2, 15)}, Texts) /\ [][NextHelper]_vars

NextMiddleware == \E request \in HttpRequests : InvokeAsync(request)

SpecMiddleware == Init({<<>>}, {DayNum(2025, 2, 15)}, {<<>>}) /\ [][NextMiddleware]_vars

NextAuth ==
  \/ \E credentials \in LoginBodies : login(credentials)
  \/ \E credentials \in LoginBodies : loginNext(credentials)
  \/ \E credentials \in LoginBodies, status \in {NetworkError, 400, 401} :
       loginError(credentials, status)
  \/ logout
  \/ apiCall
  \/ \E sent \in SentCalls : apiUnauthorized(sent)
  \/ \E sent \in SentCalls : apiAnswered(sent)
  \/ \E url \in ProtectedUrls : authGuard(url)

SpecAuth == Init({<<>>}, {DayNum(2025, 2, 15)}, {<<>>}) /\ [][NextAuth]_vars

(***************************************************************************)
(* Properties of the dashboard statistics (under SpecDash)                 *)
(***************************************************************************)
AllDatesValid(list) ==
  \A i \in 1..Len(list) : list[i].startDate.ok /\ list[i].endDate.ok

\* r is a / b rounded to the nearest integer (a half rounds upwards).
IsRounded(r, a, b) == 2 * r * b - b <= 2 * a /\ 2 * a < 2 * r * b + b

\* The days a period covers, both boundary days counted.
InclusiveDays(c) == c.endDate.day - c.startDate.day + 1

RECURSIVE MinOf(_)
MinOf(s) ==
  IF Len(s) = 1 THEN s[1]
  ELSE IF s[1] <= MinOf(Tail(s)) THEN s[1] ELSE MinOf(Tail(s))

RECURSIVE RemoveOne(_, _)
RemoveOne(s, x) ==
  IF s = <<>> THEN <<>>
  ELSE IF Head(s) = x THEN Tail(s) ELSE <<Head(s)>> \o RemoveOne(Tail(s), x)

RECURSIVE Ascending(_)
Ascending(s) ==
  IF s = <<>> THEN <<>> ELSE <<MinOf(s)>> \o Ascending(RemoveOne(s, MinOf(s)))

\* The start days of a list in ascending order, equal days repeated.
StartDaysAscending(list) == Ascending([i \in 1..Len(list) |-> list[i].startDate.day])

\* C1: the average period length is undefined exactly when the list of cycles
\* is empty; an empty list leaves both averages undefined, and a non-empty
\* list of cycles with valid dates gives a number.
C1_AveragePeriodUndefinedIffEmpty ==
  /\ (averagePeriodLength = Undefined) <=> (recentCycles = <<>>)
  /\ recentCycles = <<>> => averageCycleLength = Undefined
  /\ (recentCycles # <<>> /\ AllDatesValid(recentCycles))
       => averagePeriodLength.k = "number"

C1_Witness ==
  /\ Len(recentCycles) = 1
  /\ AllDatesValid(recentCycles)
  /\ averagePeriodLength.k = "number"
  /\ averageCycleLength = Undefined

\* C2: for a non-empty list of cycles with valid dates the average period
\* length is the mean of the inclusive day counts (end day - start day + 1),
\* rounded to the nearest integer.
C2_AveragePeriodIsRoundedMean ==
  (recentCycles # <<>> /\ AllDatesValid(recentCycles)) =>
    /\ averagePeriodLength.k = "number"
    /\ IsRounded(averagePeriodLength.v,
                 SumSeq([i \in 1..Len(recentCycles) |-> InclusiveDays(recentCycles[i])]),
                 Len(recentCycles))

\* a one-day period and a period of MaxSpan + 1 days that runs into summer time
C2_Witness ==
  /\ Len(recentCycles) = 2
  /\ AllDatesValid(recentCycles)
  /\ \E i \in 1..2 : InclusiveDays(recentCycles[i]) = 1
  /\ \E i \in 1..2 :
        /\ recentCycles[i].startDate.day = DayNum(2025, 2, 29)
        /\ InclusiveDays(recentCycles[i]) = MaxSpan + 1
  /\ 2 * averagePeriodLength.v = MaxSpan + 2 + (MaxSpan % 2)

C3_WitnessEqualStarts ==
  /\ Len(recentCycles) = 2
  /\ AllDatesValid(recentCycles)
  /\ recentCycles[1].startDate = recentCycles[2].startDate
  /\ averageCycleLength = Num(0)

shownList == receivedAsSent

BothDatesValid(c) == c.startDate.ok /\ c.endDate.ok

\* The cells of monthDays that stand for a day of the month.
DayCells == { i \in 1..Len(monthDays) : monthDays[i].day # NullDay }

\* The day number a cell of the displayed month stands for.
CellDayNum(i) ==
  DayNum(CivilOf[currentDate].y, CivilOf[currentDate].m, monthDays[i].day)

\* C4: with valid dates throughout, a day is a period day exactly if some
\* cycle has start <= day <= end, both boundary days included.
C4_PeriodIffWithinSomeCycle ==
  AllDatesValid(shownList) =>
    \A i \in DayCells :
      monthDays[i].isPeriod <=>
        \E j \in 1..Len(shownList) :
          /\ shownList[j].startDate.day <= CellDayNum(i)
          /\ CellDayNum(i) <= shownList[j].endDate.day

\* the last day of a period of several days is on display as a period day
C4_Witness ==
  /\ AllDatesValid(shownList)
  /\ \E i \in DayCells, j \in 1..Len(shownList) :
       /\ shownList[j].startDate.day < shownList[j].endDate.day
       /\ CellDayNum(i) = shownList[j].endDate.day
       /\ monthDays[i].isPeriod

\* C5: for a single cycle starting on day s (valid dates) the ovulation day is
\* s + 14, the fertile days are s + 9 .. s + 13, and no other day is marked
\* as ovulation or fertile.
C5_SingleCycleOvulationAndFertileDays ==
  (Len(shownList) = 1 /\ AllDatesValid(shownList)) =>
    LET s == shownList[1].startDate.day
    IN  \A i \in DayCells :
          /\ monthDays[i].isOvulation <=> CellDayNum(i) = s + 14
          /\ monthDays[i].isFertile <=> CellDayNum(i) \in (s + 9)..(s + 13)

\* a cycle starting 2025-03-29: April shows the ovulation day and 5 fertile days
C5_Witness ==
  /\ Len(shownList) = 1
  /\ AllDatesValid(shownList)
  /\ shownList[1].startDate.day = DayNum(2025, 2, 29)
  /\ \E i \in DayCells : monthDays[i].isOvulation
  /\ Cardinality({ i \in DayCells : monthDays[i].isFertile }) = 5

ValidCycles ==
  LET Valid(c) == ~c.startDate.nan /\ ~c.endDate.nan IN SelectSeq(cycles, Valid)

\* What a cell shows of the classification of its day.
InfoOf(cell) ==
  [isPeriod |-> cell.isPeriod, isFertile |-> cell.isFertile,
   isOvulation |-> cell.isOvulation, cycleId |-> cell.cycleId]

\* C8: a cycle with an invalid start or end date is skipped: every day is
\* classified as it is from the list without such cycles, and the grid still
\* holds every day of the month.
C8_InvalidCyclesSkipped ==
  monthDays # <<>> =>
    /\ { monthDays[i].day : i \in DayCells }
         = 1..DaysInMonth(CivilOf[currentDate].y, CivilOf[currentDate].m)
    /\ \A i \in DayCells :
         InfoOf(monthDays[i]) = getDayInfo(monthDays[i].date, ValidCycles)

\* March 2025 on display with a cycle that starts on 2025-03-01 and has no
\* valid end, alone in the list: no day is marked
C8_Witness ==
  /\ Len(cycles) = 1
  /\ ~cycles[1].startDate.nan /\ cycles[1].endDate.nan
  /\ CivilOf[currentDate].m = 2
  /\ Len(monthDays) = 42
  /\ \A i \in DayCells : ~monthDays[i].active

(***************************************************************************)
(* Properties of the cycle API (under SpecApi)                             *)
(***************************************************************************)
\* No stored cycle ends before it starts.
StoredEndNotBeforeStart == \A r \in PeriodCycle : r.end_date >= r.start_date

\* The request just answered is a create or an update whose end date is
\* before its start date.
AnsweredEndBeforeStart ==
  /\ lastRequest'.op \in {"create", "update"}
  /\ lastRequest'.EndDate < lastRequest'.StartDate

C11_SymptomDateWithinCycle ==
  \A o \in CycleSymptoms : \A r \in PeriodCycle :
    r.cycle_id = o.cycle_id => (r.start_date <= o.date /\ o.date <= r.end_date)

\* C12: every stored symptom occurrence has an intensity between 1 and 5.
C12_IntensityOneToFive == \A o \in CycleSymptoms : o.intensity \in 1..5

(***************************************************************************)
(* Several cycles matching one day (under SpecCal)                         *)
(***************************************************************************)
\* The positions of the cycles of the list that have two valid dates.
ValidAt == { j \in 1..Len(shownList) : BothDatesValid(shownList[j]) }

\* The positions of the cycles whose period holds day n, whose fertile window
\* together with the ovulation day (start + 9 .. start + 14) holds day n, and
\* whose ovulation day is day n.
PeriodAt(n) ==
  { j \in ValidAt : shownList[j].startDate.day <= n /\ n <= shownList[j].endDate.day }
WindowAt(n) ==
  { j \in ValidAt : shownList[j].startDate.day + 9 <= n /\ n <= shownList[j].startDate.day + 14 }
OvulationAt(n) == { j \in ValidAt : n = shownList[j].startDate.day + 14 }

FirstOf(S) == CHOOSE j \in S : \A k \in S : j <= k
LastOf(S) == CHOOSE j \in S : \A k \in S : k <= j

\* C13 as stated: the first cycle in scan order that matches a day decides
\* the day's classification and its cycle id alone.
C13_FirstMatchGoverns ==
  \A i \in DayCells :
    LET n == CellDayNum(i)
        M == PeriodAt(n) \cup WindowAt(n)
    IN  M # {} =>
          /\ monthDays[i].isPeriod <=> FirstOf(M) \in PeriodAt(n)
          /\ monthDays[i].isOvulation <=> FirstOf(M) \in OvulationAt(n)
          /\ monthDays[i].isFertile <=> FirstOf(M) \in WindowAt(n) \ OvulationAt(n)
          /\ monthDays[i].cycleId = shownList[FirstOf(M)].cycleId

\* C13, amended: all matching cycles contribute.  A day is a period day if
\* some cycle's period holds it and an ovulation day if it is some cycle's
\* ovulation day; it is a fertile day only if some cycle's window holds it,
\* and surely if in addition it is no cycle's ovulation day.  The cycle id
\* is that of the last cycle whose period holds the day, else that of the
\* first cycle whose window or ovulation day matches, else none.
C13_AllMatchesContribute ==
  \A i \in DayCells :
    LET n == CellDayNum(i)
    IN  /\ monthDays[i].isPeriod <=> PeriodAt(n) # {}
        /\ monthDays[i].isOvulation <=> OvulationAt(n) # {}
        /\ monthDays[i].isFertile => WindowAt(n) # {}
        /\ (WindowAt(n) # {} /\ OvulationAt(n) = {}) => monthDays[i].isFertile
        /\ monthDays[i].cycleId =
             IF PeriodAt(n) # {} THEN shownList[LastOf(PeriodAt(n))].cycleId
             ELSE IF WindowAt(n) # {} THEN shownList[FirstOf(WindowAt(n))].cycleId
             ELSE NoCycleId

\* a day in the periods of two cycles carries the id of the second one
C13_Witness ==
  \E i \in DayCells :
    /\ Cardinality(PeriodAt(CellDayNum(i))) = 2
    /\ monthDays[i].cycleId = shownList[2].cycleId
    /\ shownList[1].cycleId # shownList[2].cycleId

(***************************************************************************)
(* Properties of AuthenticationHelper (under SpecHelper)                   *)
(***************************************************************************)
\* C15: for every user name and password, Encrypt returns "Basic " followed
\* by the Base64 text of "username:password", and Decrypt of that header
\* returns exactly that user name and that password.
C15_DecryptInvertsEncrypt ==
  /\ encryptedHeader # <<>> =>
       /\ StartsWith(encryptedHeader, BasicPrefix)
       /\ FromBase64String(SubSeq(encryptedHeader, Len(BasicPrefix) + 1,
                                  Len(encryptedHeader)))
            = [ok |-> TRUE, bytes |-> username \o <<Colon>> \o password]
  /\ decrypted # NotDecrypted =>
       decrypted = [thrown |-> FALSE, username |-> username, password |-> password]

C17_UnauthorizedAnswerLogsOut ==
  answered401 =>
    /\ ~isAuthenticated
    /\ authEvent = "authGuard" => (guardResult = FALSE /\ routerUrl = "/login")

(***************************************************************************)
(* Properties of the authentication middleware (under SpecMiddleware)      *)
(***************************************************************************)
\* The accounts whose e-mail address and stored password the header carries.
CarriedBy(header) == {u \in UserRows : header = Encrypt(u.Email, u.Pw)}

NeedsAuthentication(request) ==
  /\ request # NoHttpRequest
  /\ request.Method # "OPTIONS"
  /\ request.Endpoint \notin AllowAnonymous

\* C18: a request that is neither OPTIONS nor to an [AllowAnonymous]
\* endpoint reaches a controller only if its Authorization header carries
\* Basic credentials whose e-mail address belongs to an existing user and
\* whose password equals the stored one, and the controller then sees that
\* user's id and e-mail address; every other such request is answered 401
\* and no controller runs.
C18_OnlyValidCredentialsReachController ==
  NeedsAuthentication(httpRequest) =>
    /\ httpContext.next =>
         \E u \in CarriedBy(httpRequest.Authorization) :
           httpContext.Items = [UserId |-> u.UserId, UserEmail |-> u.Email]
    /\ CarriedBy(httpRequest.Authorization) = {} =>
         (~httpContext.next /\ httpContext.StatusCode = 401)

\* C19: GET /api/symptom needs no authentication: sent without an
\* Authorization header it reaches the controller and is answered 200.
C19_SymptomsNeedNoAuthentication ==
  ( /\ httpRequest.Method = "GET"
    /\ httpRequest.Endpoint = "SymptomController.GetAllSymptoms"
    /\ httpRequest.Authorization = <<>> )
  => (httpContext.next /\ StatusOf(httpContext) = 200)

(***************************************************************************)
(* Ownership of cycles (under SpecApi)                                     *)
(***************************************************************************)
OwnedByOthers(table, user) == {r \in table : r.user_id # user}

SymptomsOf(table, cycleId) == {o \in table : o.cycle_id = cycleId}

\* C20: a request authenticated as one user changes nothing that belongs to
\* another: the other users' cycles (dates, notes) stay as they are, none is
\* added or removed, and the symptom occurrences of their cycles stay as
\* they are.
C20_OnlyOwnCyclesChange ==
  [][ /\ OwnedByOthers(PeriodCycle', lastRequest'.auth)
           = OwnedByOthers(PeriodCycle, lastRequest'.auth)
      /\ \A r \in OwnedByOthers(PeriodCycle, lastRequest'.auth) :
           SymptomsOf(CycleSymptoms', r.cycle_id) = SymptomsOf(CycleSymptoms, r.cycle_id)
    ]_vars

(***************************************************************************)
(* Month navigation and the cycle id of a day (under SpecCal)              *)
(***************************************************************************)
\* C23: whatever day of the month currentDate holds, a navigateMonth call
\* moves the displayed month by exactly one month, forward or backward: no
\* month is skipped.
C23_NavigationMovesOneMonth ==
  [][ currentDate' # currentDate =>
        MonthIndex(currentDate') - MonthIndex(currentDate) \in {-1, 1} ]_vars

\* C27 as stated: the cycle id of a day that several cycles match is the id
\* of the last cycle in scan order that matches it, by period, fertile
\* window or ovulation day.
C27_LastMatchWinsCycleId ==
  \A i \in DayCells :
    LET n == CellDayNum(i)
        M == PeriodAt(n) \cup WindowAt(n)
    IN  M # {} => monthDays[i].cycleId = shownList[LastOf(M)].cycleId

\* C27, amended: the cycle id of a day is the id of the last cycle in scan
\* order whose period holds the day; if no period holds it, the id of the
\* first cycle in scan order that matches it by fertile window or ovulation
\* day.
C27_LastPeriodElseFirstFertileWins ==
  \A i \in DayCells :
    LET n == CellDayNum(i)
    IN  /\ PeriodAt(n) # {} =>
             monthDays[i].cycleId = shownList[LastOf(PeriodAt(n))].cycleId
        /\ (PeriodAt(n) = {} /\ WindowAt(n) # {}) =>
             monthDays[i].cycleId = shownList[FirstOf(WindowAt(n))].cycleId

\* a day in the fertile windows of two cycles, in no period, carries the id
\* of the first of them
C27_Witness ==
  \E i \in DayCells :
    LET n == CellDayNum(i)
    IN  /\ PeriodAt(n) = {}
        /\ Cardinality(WindowAt(n)) = 2
        /\ monthDays[i].cycleId = shownList[1].cycleId
        /\ shownList[1].cycleId # shownList[2].cycleId

(***************************************************************************)
(* The dashboard statistics follow the list (under SpecDash)               *)
(***************************************************************************)
\* The list without its elements that carry the id, the others in their
\* order.
RemainingAfter(list, ids) ==
  LET Kept(c) == c.cycleId \notin ids IN SelectSeq(list, Kept)

\* C24: after every step the two averages are the statistics of the
\* recentCycles list of that moment; a successful deletion removes exactly
\* the deleted cycle from recentCycles; a failed load and a failed deletion
\* change neither recentCycles nor the averages.
C24_StatisticsFollowTheList ==
  [][ /\ averagePeriodLength' = calculateStats(recentCycles').averagePeriodLength
      /\ averageCycleLength' = calculateStats(recentCycles').averageCycleLength
      /\ server' # server =>
           /\ Cardinality(pendingDelete \ pendingDelete') = 1
           /\ recentCycles' = RemainingAfter(recentCycles, pendingDelete \ pendingDelete')
      /\ ( \/ (pendingLoad /\ ~pendingLoad' /\ dashErrorMessage' # "")
           \/ (pendingDelete' # pendingDelete /\ pendingDelete' \subseteq pendingDelete
               /\ server' = server) )
         => UNCHANGED <<recentCycles, averagePeriodLength, averageCycleLength>>
    ]_vars

\* one of two loaded cycles has been deleted: the average cycle length is
\* undefined again, the average period length is that of the cycle left
C24_Witness ==
  /\ Len(receivedAsSent) = 2
  /\ Len(recentCycles) = 1
  /\ averageCycleLength = Undefined
  /\ averagePeriodLength # Undefined

(***************************************************************************)
(* What GET api/cycles answers (under SpecApi)                             *)
(***************************************************************************)
\* C21: GetUserCycles answers exactly the cycles the authenticated user
\* owns, each with exactly the symptom occurrences stored for it, and what
\* it would answer to one user is not changed by a request of another user.
C21_AnswerIsOwnAndIndependent ==
  [][ /\ lastRequest'.op = "get" =>
           /\ Len(lastCycles') =
                Cardinality({r \in PeriodCycle' : r.user_id = lastRequest'.auth})
           /\ \A r \in PeriodCycle' :
                r.user_id = lastRequest'.auth <=>
                  \E i \in 1..Len(lastCycles') :
                    /\ lastCycles'[i].CycleId = r.cycle_id
                    /\ lastCycles'[i].UserId = r.user_id
                    /\ lastCycles'[i].StartDate = r.start_date
                    /\ lastCycles'[i].EndDate = r.end_date
                    /\ lastCycles'[i].Notes = r.notes
                    /\ Cardinality(lastCycles'[i].Symptoms)
                         = Cardinality(SymptomsOf(CycleSymptoms', r.cycle_id))
      /\ \A user \in Users \ {lastRequest'.auth} :
           CycleDtos(user, PeriodCycle', CycleSymptoms')
             = CycleDtos(user, PeriodCycle, CycleSymptoms)
    ]_vars

(***************************************************************************)
(* Symptom occurrences and their cycles (under SpecCycleSteps)             *)
(***************************************************************************)
\* C25: every stored symptom occurrence belongs to a stored cycle, whatever
\* the order in which UpdateCycle and DeleteCycle requests are served.
C25_SymptomsBelongToStoredCycles ==
  \A o \in CycleSymptoms : \E r \in PeriodCycle : r.cycle_id = o.cycle_id

(***************************************************************************)
(* Accounts (under SpecAccounts)                                           *)
(***************************************************************************)
\* C22: in every reachable state no two accounts have the same email,
\* however Register and UpdateUser requests are interleaved.
C22_NoTwoAccountsShareAnEmail ==
  \A u, v \in UserTable : u.Email = v.Email => u = v

\* C26: a request authenticated as one user never changes or deletes another
\* user's account: every row that a step changes or removes is the row of
\* the user the answered request was authenticated as, and an UpdateUser,
\* UpdatePassword or DeleteUser request that names another user's account
\* is answered 403.
C26_OnlyOwnAccountChanges ==
  [][ /\ \A u \in UserTable : u \notin UserTable' => lastUserAnswer'.auth = u.UserId
      /\ ( /\ lastUserAnswer'.op \in {"update", "password", "delete"}
           /\ lastUserAnswer'.auth # lastUserAnswer'.UserId
           /\ \E u \in UserTable : u.UserId = lastUserAnswer'.UserId )
         => lastUserAnswer'.status = 403
    ]_vars

=============================================================================
